---- MODULE Spec2Model ----
(***************************************************************************)
(* Halton / Van der Corput sample generation of entmoot/sampler/halton.py. *)
(*                                                                         *)
(* The two module-level functions _create_primes and                       *)
(* _van_der_corput_samples are operators that run the loops of the source  *)
(* (RECURSIVE operators, one unfolding per loop iteration).                *)
(* Halton.generate is a state machine over the generator's configuration   *)
(* and the locals of one call, one action per straight-line block.         *)
(*                                                                         *)
(* Sample values are floats in the source.  Here a value is the exact      *)
(* fraction num/den it stands for; floating-point rounding is not          *)
(* modelled.  Python lists are 0-based, sequences here are 1-based: list   *)
(* position i is sequence position i+1.                                    *)
(***************************************************************************)
EXTENDS Integers, Sequences, FiniteSets, TLC

\* ------------------------------------------------------------------ bounds
MaxThreshold == 50      \* _create_primes is applied to thresholds -1..MaxThreshold
MaxIndex == 12          \* indices handed directly to _van_der_corput_samples
MaxIdxLen == 2          \* length of the free index sequences
MaxBase == 4            \* number_base values 1..MaxBase handed directly to the sampler
MaxDim == 3             \* n_dim of a generate call
MaxSamples == 4         \* n_samples of a generate call
MaxSkip == 2            \* largest configured min_skip / max_skip
NegSkip == 2            \* configured skips go down to -NegSkip

\* ------------------------------------------------------------ Python helpers
Max2(a, b) == IF a >= b THEN a ELSE b

RECURSIVE SeqMax(_)
\* max(primes) of a non-empty list
SeqMax(s) ==
    IF Len(s) = 1 THEN s[1] ELSE Max2(s[1], SeqMax(Tail(s)))

\* what a list store outside the list raises
IndexError == << -1 >>

\* ------------------------------------------------------------ _create_primes
RECURSIVE Range(_, _, _)
\* list(range(start, stop, step)), step > 0
Range(start, stop, step) ==
    IF start >= stop THEN << >> ELSE << start >> \o Range(start + step, stop, step)

\* numbers = list(range(3, threshold+1, 2))
OddNumbers(threshold) == Range(3, threshold + 1, 2)

\* mutant of Half: int(threshold/2-1), the last odd number is never struck
HalfShort(threshold) == threshold \div 2 - 1

\* half = int((threshold+1)/2-1), threshold >= 3
Half(threshold) == (threshold + 1) \div 2 - 1

\* idy = int((counter*counter-3)/2)
FirstStrike(counter) == (counter * counter - 3) \div 2

\* counter <= root_of_threshold, root_of_threshold = threshold ** 0.5
WithinRoot(counter, threshold) == counter * counter <= threshold

RECURSIVE StrikeMultiples(_, _, _, _)
\* while idy < half: numbers[idy] = 0; idy += counter
\* (half is the length of numbers, so these stores stay inside the list)
StrikeMultiples(numbers, idy, counter, half) ==
    IF idy < half
    THEN StrikeMultiples([numbers EXCEPT ![idy + 1] = 0], idy + counter, counter, half)
    ELSE numbers

RECURSIVE Sieve(_, _, _, _)
\* while counter <= root_of_threshold: ...; idx += 1; counter = 2*idx+3
\* The store numbers[idy] = 0 ahead of the inner loop is not guarded by the
\* loop test: outside the list it raises and ends the function.
Sieve(numbers, idx, counter, threshold) ==
    IF WithinRoot(counter, threshold)
    THEN IF numbers[idx + 1] # 0
         THEN IF FirstStrike(counter) >= Len(numbers)
              THEN IndexError
              ELSE Sieve(StrikeMultiples([numbers EXCEPT ![FirstStrike(counter) + 1] = 0],
                                         FirstStrike(counter), counter, Half(threshold)),
                         idx + 1, 2 * (idx + 1) + 3, threshold)
         ELSE Sieve(numbers, idx + 1, 2 * (idx + 1) + 3, threshold)
    ELSE numbers

\* _create_primes(threshold); IndexError when a store leaves the list
_create_primes(threshold) ==
    IF threshold = 2 THEN << 2 >>
    ELSE IF threshold < 2 THEN << >>
    ELSE LET numbers == Sieve(OddNumbers(threshold), 0, 3, threshold)
         IN IF numbers = IndexError THEN IndexError
            ELSE << 2 >> \o SelectSeq(numbers, LAMBDA number : number # 0)

\* --------------------------------------------------- _van_der_corput_samples
\* idx = np.asarray(idx).flatten() + 1
OneBased(idx) == [k \in 1..Len(idx) |-> idx[k] + 1]

\* mutant of Digit: idx[active]/base, the modulo forgotten
DigitNoModulo(i, number_base) == i

\* idx[active] % number_base, the numerator of the term added to out[active]
Digit(i, number_base) == i % number_base

\* mutant of Active: active = idx > 1, the leading digit is dropped
ActiveOffByOne(idx) == [k \in 1..Len(idx) |-> idx[k] > 1]

\* active = idx > 0
Active(idx) == [k \in 1..Len(idx) |-> idx[k] > 0]

\* np.any(active)
AnyActive(active) == \E k \in 1..Len(active) : active[k]

RECURSIVE VdcLoop(_, _, _, _, _)
\* The while loop.  out[k] stands for num[k]/den, den the last base used
\* (1 before the first iteration): adding digit/base with base = den*number_base
\* gives (num[k]*number_base + digit)/base.
VdcLoop(idx, num, base, active, number_base) ==
    IF AnyActive(active)
    THEN LET num2 == [k \in 1..Len(idx) |->
                   IF active[k]
                   THEN num[k] * number_base + Digit(idx[k], number_base)
                   ELSE num[k] * number_base]
             idx2 == [k \in 1..Len(idx) |-> idx[k] \div number_base]
         IN VdcLoop(idx2, num2, base * number_base, Active(idx2), number_base)
    ELSE [err |-> "none", num |-> num, den |-> base \div number_base]

\* _van_der_corput_samples(idx, number_base)
_van_der_corput_samples(idx, number_base) ==
    IF ~(number_base > 1)
    THEN [err |-> "AssertionError", num |-> << >>, den |-> 1]
    ELSE VdcLoop(OneBased(idx), [k \in 1..Len(idx) |-> 0], number_base,
                 [k \in 1..Len(idx) |-> TRUE], number_base)

\* mutant of ArgAfterCall: the loop divides the caller's array in place
ArgAliased(idx, number_base) == [k \in 1..Len(idx) |-> IF idx[k] >= 0 THEN 0 ELSE -1]

\* The caller's index list after the call: line 159 copies it into a new array
\* and adds 1 into another, so the in-place idx //= number_base never touches it.
ArgAfterCall(idx, number_base) == idx

\* ------------------------------------------------------------ Halton.generate
\* mutant of PrimeOrderInit: n_dim // 10, a threshold that doubling never raises
PrimeOrderTenth(n_dim) == n_dim \div 10

\* prime_order = 10 * n_dim
PrimeOrderInit(n_dim) == 10 * n_dim

\* mutant of SkipPolicy: the elif for min_skip == max_skip is missing
SkipPolicyNoCommon(min_skip, max_skip) ==
    IF min_skip < 0 /\ max_skip < 0 THEN "max_primes"
    ELSE IF min_skip < 0 \/ max_skip < 0 THEN "np_max"
    ELSE "randint"

\* the if / elif chain that picks how skip is resolved
SkipPolicy(min_skip, max_skip) ==
    IF min_skip < 0 /\ max_skip < 0 THEN "max_primes"
    ELSE IF min_skip = max_skip THEN "common"
    ELSE IF min_skip < 0 \/ max_skip < 0 THEN "np_max"
    ELSE "randint"

\* np.max(a, axis) of a scalar a: a 0-d array has no axis to reduce over; numpy
\* lets axis 0 and -1 through and raises AxisError for any other axis.
NpMax(a, axis) ==
    IF axis \in {0, -1} THEN [err |-> "none", val |-> a]
    ELSE [err |-> "AxisError", val |-> 0]

\* mutant of Randint: the upper end included, as random.randint does
RandintInclusive(low, high) == low..high

\* the values rng.randint(low, high) can return; none (ValueError) when low >= high
Randint(low, high) == low..(high - 1)

\* mutant of Indices: [skip for idx in range(n_samples)]
IndicesConstant(skip, n_samples) == [k \in 1..n_samples |-> skip]

\* indices = [idx + skip for idx in range(n_samples)]
Indices(skip, n_samples) == [k \in 1..n_samples |-> (k - 1) + skip]

\* ------------------------------------------------------------------- state
VARIABLES
    self_min_skip,   \* Halton.min_skip
    self_max_skip,   \* Halton.max_skip
    self_primes,     \* Halton.primes: [is_none, items]
    pc,              \* position of the current generate call
    random_state,    \* kind of the random_state argument
    draws,           \* draws this call made from the random source
    n_dim,           \* locals of generate
    n_samples,
    primes,
    prime_order,
    skip,
    indices,
    dim_,
    out,             \* rows of the normalised sample matrix, [num, den] each
    err,             \* the exception that ended the call
    fcall,           \* the function applied directly
    threshold,       \* argument of _create_primes
    created,         \* its result
    idx_arg,         \* arguments of _van_der_corput_samples
    number_base,
    samples          \* its result

config == << self_min_skip, self_max_skip, self_primes >>
locals == << pc, random_state, draws, n_dim, n_samples, primes, prime_order, skip,
             indices, dim_, out, err >>
direct == << fcall, threshold, created, idx_arg, number_base, samples >>
vars == << config, locals, direct >>

\* ------------------------------------------------------------------ inputs
SkipChoices == (0 - NegSkip)..MaxSkip

None == [is_none |-> TRUE, items |-> << >>]
Given(items) == [is_none |-> FALSE, items |-> items]

\* the primes argument of the constructor: None, empty, too few, enough, too many,
\* unordered, and a tuple holding a base that is not > 1
PrimesChoices ==
    {None} \cup {Given(p) : p \in {<< >>, << 2 >>, << 3, 2 >>, << 2, 3, 5 >>,
                                   << 1, 2 >>, << 2, 3, 5, 7, 11 >>}}

RandomStates == {"None", "int", "RandomState"}

RECURSIVE SeqsUpTo(_, _)
SeqsUpTo(S, n) ==
    IF n = 0 THEN {<< >>}
    ELSE LET shorter == SeqsUpTo(S, n - 1)
         IN shorter \cup {Append(s, x) : s \in {t \in shorter : Len(t) = n - 1}, x \in S}

\* index sequences handed directly to the sampler: every short sequence, and the
\* run 0..7
IdxChoices ==
    (SeqsUpTo(0..MaxIndex, MaxIdxLen) \ {<< >>}) \cup {[k \in 1..8 |-> k - 1]}

\* locals of a call that has not reached them yet
Idle ==
    /\ pc = "idle" /\ random_state = "None" /\ draws = 0
    /\ n_dim = 0 /\ n_samples = 0 /\ primes = << >> /\ prime_order = 0
    /\ skip = 0 /\ indices = << >> /\ dim_ = 0 /\ out = << >> /\ err = "none"

NoDirectCall ==
    /\ fcall = "none" /\ threshold = 0 /\ created = << >>
    /\ idx_arg = << >> /\ number_base = 2
    /\ samples = [err |-> "none", num |-> << >>, den |-> 1]

\* Halton.__init__
Init ==
    /\ self_min_skip \in SkipChoices
    /\ self_max_skip \in SkipChoices
    /\ self_primes \in PrimesChoices
    /\ Idle
    /\ NoDirectCall

\* ----------------------------------------------------------------- actions
Raise(exception) ==
    /\ pc' = "raised"
    /\ err' = exception

\* lines 95-105: entry of generate up to the test of the growth loop
Generate(dimensions, n, rs) ==
    /\ pc \in {"idle", "returned", "raised"}
    /\ random_state' = rs
    /\ draws' = 0
    /\ n_dim' = dimensions
    /\ n_samples' = n
    /\ primes' = IF self_primes.is_none THEN << >> ELSE self_primes.items
    /\ IF Len(primes') < n_dim'
       THEN prime_order' = PrimeOrderInit(n_dim') /\ pc' = "grow"
       ELSE prime_order' = 0 /\ pc' = "assert"
    /\ skip' = 0 /\ indices' = << >> /\ dim_' = 0 /\ out' = << >> /\ err' = "none"
    /\ UNCHANGED << config, direct >>

\* lines 106-108: one round of the growth loop
GrowPrimes ==
    /\ pc = "grow"
    /\ Len(primes) < n_dim
    /\ LET regenerated == _create_primes(prime_order)
       IN IF regenerated = IndexError
          THEN Raise("IndexError") /\ UNCHANGED << primes, prime_order >>
          ELSE /\ primes' = regenerated
               /\ prime_order' = prime_order * 2
               /\ UNCHANGED << pc, err >>
    /\ UNCHANGED << config, direct, random_state, draws, n_dim, n_samples, skip,
                    indices, dim_, out >>

\* lines 106, 110: the loop ends and the list is cut to n_dim entries
TruncatePrimes ==
    /\ pc = "grow"
    /\ ~(Len(primes) < n_dim)
    /\ primes' = SubSeq(primes, 1, n_dim)
    /\ pc' = "assert"
    /\ UNCHANGED << config, direct, random_state, draws, n_dim, n_samples,
                    prime_order, skip, indices, dim_, out, err >>

\* line 111: assert len(primes) == n_dim, "not enough primes"
AssertPrimes ==
    /\ pc = "assert"
    /\ IF Len(primes) = n_dim
       THEN pc' = "skip" /\ UNCHANGED err
       ELSE Raise("not enough primes")
    /\ UNCHANGED << config, direct, random_state, draws, n_dim, n_samples, primes,
                    prime_order, skip, indices, dim_, out >>

\* lines 121-122: out = np.empty(...), the index list, and the loop counter
StartSampling(s) ==
    /\ skip' = s
    /\ out' = << >>
    /\ indices' = Indices(s, n_samples)
    /\ dim_' = 0
    /\ pc' = "sample"
    /\ UNCHANGED err

\* lines 112-113
SkipMaxPrimes ==
    /\ pc = "skip"
    /\ SkipPolicy(self_min_skip, self_max_skip) = "max_primes"
    /\ StartSampling(SeqMax(primes))
    /\ UNCHANGED << config, direct, random_state, draws, n_dim, n_samples, primes,
                    prime_order >>

\* lines 114-115
SkipCommon ==
    /\ pc = "skip"
    /\ SkipPolicy(self_min_skip, self_max_skip) = "common"
    /\ StartSampling(self_min_skip)
    /\ UNCHANGED << config, direct, random_state, draws, n_dim, n_samples, primes,
                    prime_order >>

\* lines 116-117
SkipNpMax ==
    /\ pc = "skip"
    /\ SkipPolicy(self_min_skip, self_max_skip) = "np_max"
    /\ LET m == NpMax(self_min_skip, self_max_skip)
       IN IF m.err = "none"
          THEN StartSampling(m.val)
          ELSE Raise(m.err) /\ UNCHANGED << skip, out, indices, dim_ >>
    /\ UNCHANGED << config, direct, random_state, draws, n_dim, n_samples, primes,
                    prime_order >>

\* lines 118-119
SkipRandint ==
    /\ pc = "skip"
    /\ SkipPolicy(self_min_skip, self_max_skip) = "randint"
    /\ draws' = draws + 1
    /\ IF Randint(self_min_skip, self_max_skip) = {}
       THEN Raise("ValueError") /\ UNCHANGED << skip, out, indices, dim_ >>
       ELSE \E s \in Randint(self_min_skip, self_max_skip) : StartSampling(s)
    /\ UNCHANGED << config, direct, random_state, n_dim, n_samples, primes,
                    prime_order >>

\* lines 123-125: one round of the loop over the dimensions
SampleDimension ==
    /\ pc = "sample"
    /\ dim_ < n_dim
    /\ LET row == _van_der_corput_samples(indices, primes[dim_ + 1])
       IN IF row.err = "none"
          THEN /\ out' = Append(out, [num |-> row.num, den |-> row.den])
               /\ indices' = ArgAfterCall(indices, primes[dim_ + 1])
               /\ dim_' = dim_ + 1
               /\ UNCHANGED << pc, err >>
          ELSE Raise(row.err) /\ UNCHANGED << out, indices, dim_ >>
    /\ UNCHANGED << config, direct, random_state, draws, n_dim, n_samples, primes,
                    prime_order, skip >>

\* lines 126-128: the loop ends; the matrix goes through the space's
\* inverse_transform (external) and is returned
Return ==
    /\ pc = "sample"
    /\ ~(dim_ < n_dim)
    /\ pc' = "returned"
    /\ UNCHANGED << config, direct, random_state, draws, n_dim, n_samples, primes,
                    prime_order, skip, indices, dim_, out, err >>

Next ==
    \/ \E dimensions \in 1..MaxDim, n \in 1..MaxSamples, rs \in RandomStates :
            Generate(dimensions, n, rs)
    \/ GrowPrimes
    \/ TruncatePrimes
    \/ AssertPrimes
    \/ SkipMaxPrimes
    \/ SkipCommon
    \/ SkipNpMax
    \/ SkipRandint
    \/ SampleDimension
    \/ Return

Spec == Init /\ [][Next]_vars

\* A call runs to its end: the interpreter executes the next statement.
LiveSpec == Spec /\ WF_vars(Next)

\* ------------------------------------- the two functions, applied directly
InitFn ==
    /\ self_min_skip = -1 /\ self_max_skip = -1 /\ self_primes = None
    /\ Idle
    /\ fcall = "none"
    /\ created = << >>
    /\ samples = [err |-> "none", num |-> << >>, den |-> 1]
    /\ \/ threshold \in (-1)..MaxThreshold /\ idx_arg = << >> /\ number_base = 2
       \/ threshold = 0 /\ idx_arg \in IdxChoices /\ number_base \in 1..MaxBase

CallCreatePrimes ==
    /\ fcall = "none"
    /\ idx_arg = << >>
    /\ fcall' = "_create_primes"
    /\ created' = _create_primes(threshold)
    /\ UNCHANGED << config, locals, threshold, idx_arg, number_base, samples >>

CallVanDerCorput ==
    /\ fcall = "none"
    /\ idx_arg # << >>
    /\ fcall' = "_van_der_corput_samples"
    /\ samples' = _van_der_corput_samples(idx_arg, number_base)
    /\ UNCHANGED << config, locals, threshold, created, idx_arg, number_base >>

NextFn == CallCreatePrimes \/ CallVanDerCorput

SpecFn == InitFn /\ [][NextFn]_vars

\* ------------------------------------------------------------------ claims
IsPrime(p) == p >= 2 /\ \A d \in 2..(p - 1) : p % d # 0

\* C1: for every threshold >= 2, _create_primes(threshold) is exactly the primes
\* p with 2 <= p <= threshold, strictly ascending, none missing and no composite;
\* for threshold < 2 it is empty; thresholds 2, 10 and 20 give the listed tables.
C1_PrimesExact ==
    fcall = "_create_primes" =>
        /\ \A k \in 1..Len(created) : IsPrime(created[k]) /\ created[k] <= threshold
        /\ \A p \in 2..threshold : IsPrime(p) => \E k \in 1..Len(created) : created[k] = p
        /\ \A k \in 1..(Len(created) - 1) : created[k] < created[k + 1]
        /\ (threshold < 2 => created = << >>)
        /\ (threshold = 2 => created = << 2 >>)
        /\ (threshold = 10 => created = << 2, 3, 5, 7 >>)
        /\ (threshold = 20 => created = << 2, 3, 5, 7, 11, 13, 17, 19 >>)

C1_Witness ==
    /\ fcall = "_create_primes"
    /\ threshold = 49
    /\ created = << 2, 3, 5, 7, 11, 13, 17, 19, 23, 29, 31, 37, 41, 43, 47 >>

RECURSIVE Pow(_, _)
Pow(b, k) == IF k = 0 THEN 1 ELSE b * Pow(b, k - 1)

RECURSIVE NumDigits(_, _)
\* the number of base-b digits of n >= 1
NumDigits(n, b) == IF n < b THEN 1 ELSE 1 + NumDigits(n \div b, b)

\* d_k of n = sum_k d_k * b^k
DigitAt(n, b, k) == (n \div Pow(b, k)) % b

RECURSIVE ReversedNum(_, _, _, _)
\* sum over k < upto of d_k * b^(digits-1-k): the numerator of
\* sum_k d_k / b^(k+1) over the denominator b^digits
ReversedNum(n, b, digits, upto) ==
    IF upto = 0 THEN 0
    ELSE DigitAt(n, b, upto - 1) * Pow(b, digits - upto) + ReversedNum(n, b, digits, upto - 1)

DigitReversal(n, b) ==
    [num |-> ReversedNum(n, b, NumDigits(n, b), NumDigits(n, b)),
     den |-> Pow(b, NumDigits(n, b))]

BinaryVanDerCorput ==
    << << 1, 2 >>, << 1, 4 >>, << 3, 4 >>, << 1, 8 >>,
       << 5, 8 >>, << 3, 8 >>, << 7, 8 >>, << 1, 16 >> >>

\* C2: for number_base > 1 every entry of the result is the digit reversal of
\* its own index + 1, whatever the other entries of the same call are; base 2
\* and indices 0..7 give 1/2, 1/4, 3/4, 1/8, 5/8, 3/8, 7/8, 1/16.
C2_DigitReversal ==
    (fcall = "_van_der_corput_samples" /\ number_base > 1) =>
        /\ samples.err = "none"
        /\ Len(samples.num) = Len(idx_arg)
        /\ \A k \in 1..Len(idx_arg) :
               LET r == DigitReversal(idx_arg[k] + 1, number_base)
               IN samples.num[k] * r.den = r.num * samples.den
        /\ (number_base = 2 /\ idx_arg = [k \in 1..8 |-> k - 1]) =>
               \A k \in 1..8 :
                   samples.num[k] * BinaryVanDerCorput[k][2]
                       = BinaryVanDerCorput[k][1] * samples.den

\* index 0 is done after one iteration, index 12 after four
C2_Witness ==
    /\ fcall = "_van_der_corput_samples"
    /\ number_base = 2
    /\ idx_arg = << 0, 12 >>
    /\ samples.num = << 8, 11 >>
    /\ samples.den = 16

C4_ExactlyNDimPrimes ==
    /\ pc = "assert" => Len(primes) = n_dim
    /\ err # "not enough primes"

ExactlyOneNegative == (self_min_skip < 0) # (self_max_skip < 0)

\* C5: whenever exactly one of min_skip and max_skip is negative, generate does
\* not fail in that branch and the resolved skip is max(min_skip, max_skip).
C5_SkipIsLarger ==
    ExactlyOneNegative =>
        /\ err # "AxisError"
        /\ pc \in {"sample", "returned"} => skip = Max2(self_min_skip, self_max_skip)

\* C6 as claimed: with min_skip == max_skip == k no draw is made and skip = k.
C6_CommonSkipIsK ==
    (self_min_skip = self_max_skip /\ pc \in {"sample", "returned"}) =>
        draws = 0 /\ skip = self_min_skip

\* C6, amended: with min_skip == max_skip == k no draw is made, skip = k when
\* k >= 0 and skip = max(primes) when k < 0, and the rows are the sampler's
\* values at skip, ..., skip + n_samples - 1 whatever the random_state and the
\* calls before; a draw is made only when min_skip and max_skip are both
\* non-negative and distinct.
C6_NoDrawOnCommonSkip ==
    /\ draws > 0 =>
           self_min_skip >= 0 /\ self_max_skip >= 0 /\ self_min_skip # self_max_skip
    /\ self_min_skip = self_max_skip => draws = 0 /\ err # "ValueError"
    /\ (self_min_skip = self_max_skip /\ pc \in {"sample", "returned"}) =>
           /\ skip = IF self_min_skip >= 0 THEN self_min_skip ELSE SeqMax(primes)
           /\ indices = Indices(skip, n_samples)
           /\ \A d \in 1..Len(out) :
                  LET row == _van_der_corput_samples(Indices(skip, n_samples), primes[d])
                  IN out[d] = [num |-> row.num, den |-> row.den]

C6_Witness ==
    /\ pc = "returned"
    /\ self_min_skip = 2 /\ self_max_skip = 2
    /\ random_state = "int"
    /\ skip = 2
    /\ draws = 0

BothNonNegativeDistinct ==
    self_min_skip >= 0 /\ self_max_skip >= 0 /\ self_min_skip # self_max_skip

C10_ConfigurationKept ==
    [][/\ config' = config
       /\ pc' \in {"sample", "returned"} =>
              /\ indices' = Indices(skip', n_samples')
              /\ \A d \in 1..Len(out') :
                     LET row == _van_der_corput_samples(Indices(skip', n_samples'),
                                                        primes'[d])
                     IN out'[d] = [num |-> row.num, den |-> row.den]]_vars

\* the primes of the call were regenerated, the configured tuple is as given
C10_Witness ==
    /\ pc = "returned"
    /\ n_dim = 3
    /\ self_primes = Given(<< 3, 2 >>)
    /\ primes = << 2, 3, 5 >>
    /\ Len(out) = 3
    /\ indices = Indices(skip, n_samples)
====
